---- MODULE Spec2Model ----
(***************************************************************************)
(* Model of advanced-vector/vector.h: RawMemory<T> (owner of a raw block)  *)
(* and Vector<T> (elements placed in the block by hand).                   *)
(*                                                                         *)
(* The heap is a map from block ids to arrays of slots; a slot is Raw      *)
(* (no object) or holds the value of a live T.  Two Vector objects, "A"    *)
(* and "B", are operated on.  Every operation is one action that runs the  *)
(* whole member function, including the stack unwinding after a throw.     *)
(* The input f of an action chooses which throwing-capable call of the     *)
(* operation (operator new, a T constructor, a T assignment) throws:       *)
(* f = 0 none, f = k the k-th one.                                         *)
(***************************************************************************)
EXTENDS Integers, Sequences, FiniteSets, TLC

\* ------------------------------------------------------------- bounds
\* Largest capacity a container may take while it is the only one alive.
MaxCap == 4
\* Largest capacity of either container while both are alive.
MaxCapPair == 1
\* Block ids of the heap: two containers and one temporary RawMemory.
NumBlocks == 3

\* ------------------------------------------------------------- T
\* Values the caller passes in.
Values == {1, 2}
\* T(): the value-initialized T.
DefaultValue == 0
\* The value a T is left with after it was moved from.
MovedFrom == 0
\* A slot of raw memory that holds no object.
Raw == -1
\* RawMemory::buffer_ == nullptr.
NullBuf == 0

Containers == {"A", "B"}
\* The objects a member function works on: the two containers and its one
\* local object (RawMemory new_data, or Vector rhs_copy).
Local == "local"
Objects == Containers \cup {Local}
BlockIds == 1..NumBlocks
\* An object that is not constructed.
NoObject == [alive |-> FALSE, buf |-> NullBuf, cap |-> 0, size |-> 0]

\* No iterator returned.
NoPos == [buf |-> NullBuf, idx |-> -1]

VARIABLES
    heap,          \* block id -> <<slots>>; <<>> when the id is not allocated
    vec,           \* container -> [alive, buf, cap, size]
    nothrowMove    \* std::is_nothrow_move_constructible_v<T>

vars == <<heap, vec, nothrowMove>>

\* ------------------------------------------------------------- machine
\* The state an operation runs on.  fc counts down to the throwing call,
\* calls counts the throwing-capable calls that returned, ex is set while an
\* exception propagates.  The other fields count what the
\* call did: blocks allocated / released / released again / left without
\* owner, objects whose storage went away (or was built over) while they were
\* alive, uses of a slot that have no defined behaviour (an object
\* destroyed, assigned or read where none lives), and assertions of RawMemory
\* that did not hold.  log lists, in order, what was done to blocks and slots.
Start(f) ==
    [heap |-> heap,
     vec |-> [n \in Objects |-> IF n \in Containers THEN vec[n] ELSE NoObject],
     fc |-> f, calls |-> 0, ex |-> FALSE,
     allocs |-> 0, frees |-> 0, dfrees |-> 0, leaked |-> 0, lost |-> 0, ub |-> 0,
     asserts |-> 0, log |-> <<>>,
     newb |-> NullBuf, ret |-> NoPos, thrower |-> "none"]

Tick(m) == [m EXCEPT !.calls = @ + 1, !.fc = IF @ > 1 THEN @ - 1 ELSE @]
\* Statements in sequence: F runs on the state m that the statement before it
\* left.  Unless skips F while an exception propagates.
Then(m, F(_)) == F(m)
Unless(m, F(_)) == IF m.ex THEN m ELSE F(m)

\* ev is done to slot i of block b (to the whole block: i = 0); n is the
\* capacity that goes with b where ev is an allocation or an address
\* computation of RawMemory.
LoggedOf(m, ev, b, i, n) ==
    [m EXCEPT !.log = Append(@, [ev |-> ev, b |-> b, i |-> i, n |-> n])]
Logged(m, ev, b, i) == LoggedOf(m, ev, b, i, 0)

\* The call `who` throws.
Throw(m, who) == [m EXCEPT !.fc = 0, !.ex = TRUE, !.thrower = who]

IsLive(h, b, i) == b # NullBuf /\ i >= 0 /\ i < Len(h[b]) /\ h[b][i + 1] # Raw
InBlock(h, b, i) == b # NullBuf /\ i >= 0 /\ i < Len(h[b])
LiveCount(h, b) == Cardinality({i \in 1..Len(h[b]) : h[b][i] # Raw})

\* The value of the object at slot i of block b.
ReadAt(m, b, i) == IF InBlock(m.heap, b, i) THEN m.heap[b][i + 1] ELSE Raw

\* The address operator new returns next: the least id not in use.
FreeId(h) == CHOOSE b \in BlockIds : h[b] = <<>> /\ \A x \in 1..(b - 1) : h[x] # <<>>

\* new (p) T(...): an object comes to life at slot i; one that lived there is
\* lost without its destructor.
ConstructAt(m, b, i, v) ==
    IF ~InBlock(m.heap, b, i) \/ v = Raw THEN [m EXCEPT !.ub = @ + 1]
    ELSE [Logged(m, "construct", b, i)
              EXCEPT !.heap[b][i + 1] = v,
                     !.lost = @ + (IF m.heap[b][i + 1] # Raw THEN 1 ELSE 0)]

\* std::destroy_at(p).
DestroyAt(m, b, i) ==
    IF ~IsLive(m.heap, b, i) THEN [m EXCEPT !.ub = @ + 1]
    ELSE [Logged(m, "destroy", b, i) EXCEPT !.heap[b][i + 1] = Raw]

\* *p = v on a live object.
AssignAt(m, b, i, v) ==
    IF ~IsLive(m.heap, b, i) \/ v = Raw THEN [m EXCEPT !.ub = @ + 1]
    ELSE [Logged(m, "assign", b, i) EXCEPT !.heap[b][i + 1] = v]

\* std::destroy_n(first, n).
RECURSIVE DestroyN(_, _, _, _)
DestroyN(m, b, off, n) ==
    IF n <= 0 THEN m ELSE DestroyN(DestroyAt(m, b, off), b, off + 1, n - 1)

\* ------------------------------------------------------------- T's calls
\* T(const T&), T(args...), T() and both assignments may throw; T(T&&) may
\* throw unless it is noexcept.
MoveCtorThrows == ~nothrowMove
\* std::is_copy_constructible_v<T>: the operations taking const T& need it.
CopyConstructible == TRUE

\* new (p) T(v), by a constructor that may throw (canThrow) or may not.
NewT(m, b, i, v, canThrow) ==
    IF canThrow /\ m.fc = 1 THEN Throw(m, "T(value)")
    ELSE ConstructAt(IF canThrow THEN Tick(m) ELSE m, b, i, v)

\* *p = v, by an assignment operator that may throw.
AssignT(m, b, i, v) ==
    IF m.fc = 1 THEN Throw(m, "T::operator=") ELSE AssignAt(Tick(m), b, i, v)

\* The source of a move is left alive, holding MovedFrom.
MoveOut(m, b, i) ==
    IF IsLive(m.heap, b, i)
    THEN [Logged(m, "move from", b, i) EXCEPT !.heap[b][i + 1] = MovedFrom]
    ELSE [m EXCEPT !.ub = @ + 1]

\* ------------------------------------------------------------- <memory>
\* std::uninitialized_copy_n(src, n, dst) with k objects built so far: when a
\* copy throws, the k objects are destroyed and the exception goes on.
RECURSIVE UninitCopyFrom(_, _, _, _, _, _, _)
UninitCopyFrom(m, sb, so, n, db, dof, k) ==
    IF k >= n THEN m
    ELSE IF m.fc = 1 THEN DestroyN(Throw(m, "uninitialized_copy_n"), db, dof, k)
    ELSE UninitCopyFrom(ConstructAt(Logged(Tick(m), "copy from", sb, so + k),
                                    db, dof + k, ReadAt(m, sb, so + k)),
                        sb, so, n, db, dof, k + 1)

uninitialized_copy_n(m, sb, so, n, db, dof) == UninitCopyFrom(m, sb, so, n, db, dof, 0)

\* std::uninitialized_move_n(src, n, dst).
RECURSIVE UninitMoveFrom(_, _, _, _, _, _, _)
UninitMoveFrom(m, sb, so, n, db, dof, k) ==
    IF k >= n THEN m
    ELSE IF MoveCtorThrows /\ m.fc = 1
         THEN DestroyN(Throw(m, "uninitialized_move_n"), db, dof, k)
    ELSE UninitMoveFrom(
             MoveOut(ConstructAt(IF MoveCtorThrows THEN Tick(m) ELSE m,
                                 db, dof + k, ReadAt(m, sb, so + k)),
                     sb, so + k),
             sb, so, n, db, dof, k + 1)

uninitialized_move_n(m, sb, so, n, db, dof) == UninitMoveFrom(m, sb, so, n, db, dof, 0)

\* std::uninitialized_value_construct_n(dst, n).
RECURSIVE UninitValueFrom(_, _, _, _, _)
UninitValueFrom(m, b, off, n, k) ==
    IF k >= n THEN m
    ELSE IF m.fc = 1
         THEN DestroyN(Throw(m, "uninitialized_value_construct_n"), b, off, k)
    ELSE UninitValueFrom(ConstructAt(Tick(m), b, off + k, DefaultValue), b, off, n, k + 1)

uninitialized_value_construct_n(m, b, off, n) == UninitValueFrom(m, b, off, n, 0)

\* std::copy_n(src, n, dst): copy-assignments, first to last; a throw leaves
\* what was assigned so far.
RECURSIVE CopyFrom(_, _, _, _, _, _, _)
CopyFrom(m, sb, so, n, db, dof, k) ==
    IF k >= n \/ m.ex THEN m
    ELSE CopyFrom(AssignT(Logged(m, "copy from", sb, so + k),
                          db, dof + k, ReadAt(m, sb, so + k)),
                  sb, so, n, db, dof, k + 1)

\* A variant that leaves the destination as it is.
copy_n_Skipped(m, sb, so, n, db, dof) == m

copy_n(m, sb, so, n, db, dof) == CopyFrom(m, sb, so, n, db, dof, 0)

\* One move-assignment inside block b: b[to] = std::move(b[from]).
MoveAssignT(m, b, from, to) ==
    IF m.fc = 1 THEN Throw(m, "T::operator=")
    ELSE MoveOut(AssignAt(Tick(m), b, to, ReadAt(m, b, from)), b, from)

\* std::move(first, last, d_first) inside block b: from the first element up.
RECURSIVE move_forward(_, _, _, _, _)
move_forward(m, b, first, lst, dfirst) ==
    IF first >= lst \/ m.ex THEN m
    ELSE move_forward(MoveAssignT(m, b, first, dfirst), b, first + 1, lst, dfirst + 1)

\* A variant of the shift that goes from the first element up, as std::move
\* would.
move_backward_FromFirst(m, b, first, lst, dlast) ==
    move_forward(m, b, first, lst, dlast - (lst - first))

\* std::move_backward(first, last, d_last) inside block b: from the last
\* element down.
RECURSIVE move_backward(_, _, _, _, _)
move_backward(m, b, first, lst, dlast) ==
    IF lst <= first \/ m.ex THEN m
    ELSE move_backward(MoveAssignT(m, b, lst - 1, dlast - 1), b, first, lst - 1, dlast - 1)

\* ------------------------------------------------------------- RawMemory
\* RawMemory::Allocate: operator new, or nullptr for n = 0.  The address is
\* left in newb.
Allocate(m, n) ==
    IF n = 0 THEN [m EXCEPT !.newb = NullBuf]
    ELSE IF m.fc = 1 THEN Throw(m, "operator new")
    ELSE LET b == FreeId(m.heap)
         IN [LoggedOf(Tick(m), "allocate", b, 0, n)
                EXCEPT !.heap[b] = [i \in 1..n |-> Raw], !.allocs = @ + 1, !.newb = b]

\* RawMemory::Deallocate: operator delete; the objects still alive in the
\* block are lost.
Deallocate(m, b) ==
    IF b = NullBuf THEN m
    ELSE IF m.heap[b] = <<>> THEN [m EXCEPT !.dfrees = @ + 1]
    ELSE [Logged(m, "release", b, 0)
              EXCEPT !.heap[b] = <<>>, !.frees = @ + 1,
                     !.lost = @ + LiveCount(m.heap, b)]

\* The RawMemory objects whose buffer_ is b.
Owners(m, b) == {n \in Objects : m.vec[n].buf = b}

\* A pointer to block b was overwritten: when no RawMemory holds b any more,
\* the block can never be released and the objects in it never destroyed.
Dropped(m, b) ==
    IF b = NullBuf \/ m.heap[b] = <<>> \/ Owners(m, b) # {} THEN m
    ELSE [m EXCEPT !.heap[b] = <<>>, !.leaked = @ + 1,
                   !.lost = @ + LiveCount(m.heap, b)]

\* RawMemory(size_t capacity) for the data_ of object n.
RawMemory_Ctor(m, n, capacity) ==
    Unless(Allocate(m, capacity), LAMBDA m1 :
        [m1 EXCEPT !.vec[n].buf = m1.newb, !.vec[n].cap = capacity])

\* ~RawMemory() of the data_ of object n.
RawMemory_Dtor(m, n) ==
    [Deallocate(m, m.vec[n].buf) EXCEPT !.vec[n].buf = NullBuf, !.vec[n].cap = 0]

\* A variant that assigns buffer_ first and resets rhs.buffer_ afterwards.
ExchangeBuffer_AssignFirst(m, dst, src) ==
    Then([m EXCEPT !.vec[dst].buf = m.vec[src].buf], LAMBDA m1 :
        [m1 EXCEPT !.vec[src].buf = NullBuf])

\* buffer_ = std::exchange(rhs.buffer_, nullptr) with this = dst, rhs = src.
ExchangeBuffer(m, dst, src) ==
    Then([m EXCEPT !.vec[src].buf = NullBuf], LAMBDA m1 :
        [m1 EXCEPT !.vec[dst].buf = m.vec[src].buf])

\* capacity_ = std::exchange(rhs.capacity_, 0).
ExchangeCapacity(m, dst, src) ==
    Then([m EXCEPT !.vec[src].cap = 0], LAMBDA m1 :
        [m1 EXCEPT !.vec[dst].cap = m.vec[src].cap])

\* RawMemory::operator=(RawMemory&&): dst.data_ = std::move(src.data_).  The
\* pointer dst held is overwritten.
RawMemory_MoveAssign(m, dst, src) ==
    Dropped(ExchangeCapacity(ExchangeBuffer(Logged(m, "adopt", m.vec[src].buf, 0),
                                            dst, src), dst, src),
            m.vec[dst].buf)

\* A variant of the move constructor that copies the members of the source
\* and leaves them as they are.
RawMemory_MoveCtor_KeepSource(m, dst, src) ==
    [m EXCEPT !.vec[dst].buf = m.vec[src].buf, !.vec[dst].cap = m.vec[src].cap]

\* RawMemory(RawMemory&&): dst.data_ is built from std::move(src.data_).
RawMemory_MoveCtor(m, dst, src) ==
    [m EXCEPT !.vec[dst].buf = m.vec[src].buf, !.vec[dst].cap = m.vec[src].cap,
              !.vec[src].buf = NullBuf, !.vec[src].cap = 0]

\* RawMemory::Swap.
RawMemory_Swap(m, a, b) ==
    [Logged(m, "adopt", m.vec[b].buf, 0)
       EXCEPT !.vec[a].buf = m.vec[b].buf, !.vec[a].cap = m.vec[b].cap,
              !.vec[b].buf = m.vec[a].buf, !.vec[b].cap = m.vec[a].cap]

\* RawMemory::operator+ on the data_ of object n: assert(offset <= capacity_).
RawMemory_Plus(m, n, offset) ==
    [LoggedOf(m, "operator+", m.vec[n].buf, offset, m.vec[n].cap)
        EXCEPT !.asserts = @ + (IF offset <= m.vec[n].cap THEN 0 ELSE 1)]

\* RawMemory::operator[] on the data_ of object n: assert(index < capacity_).
RawMemory_Index(m, n, index) ==
    [LoggedOf(m, "operator[]", m.vec[n].buf, index, m.vec[n].cap)
        EXCEPT !.asserts = @ + (IF index < m.vec[n].cap THEN 0 ELSE 1)]

\* ------------------------------------------------------------- Vector
Buf(m, c) == m.vec[c].buf
Size(m, c) == m.vec[c].size
Capacity(m, c) == m.vec[c].cap

\* The local RawMemory new_data goes out of scope.
EndOfScope(m) == RawMemory_Dtor(m, Local)

\* Vector().
Vector_Default(m, c) ==
    [m EXCEPT !.vec[c] = [alive |-> TRUE, buf |-> NullBuf, cap |-> 0, size |-> 0]]

\* Vector(size_t size).  A throw in the body unwinds the member data_; the
\* object never comes to life.
Vector_Sized(m, c, size) ==
    Unless(RawMemory_Ctor(m, c, size), LAMBDA m1 :
    Then(uninitialized_value_construct_n(m1, Buf(m1, c), 0, size), LAMBDA m2 :
        IF m2.ex THEN RawMemory_Dtor(m2, c)
        ELSE [m2 EXCEPT !.vec[c].size = size, !.vec[c].alive = TRUE]))

\* A variant of the copy constructor that takes over other's pointer, capacity
\* and size instead of copying the elements.
Vector_Copy_Shallow(m, c, o) ==
    [m EXCEPT !.vec[c] = [alive |-> TRUE, buf |-> Buf(m, o), cap |-> Capacity(m, o),
                          size |-> Size(m, o)]]

\* Vector(const Vector& other).
Vector_Copy(m, c, o) ==
    Unless(RawMemory_Ctor(m, c, Size(m, o)), LAMBDA m1 :
    Then(uninitialized_copy_n(m1, Buf(m1, o), 0, Size(m, o), Buf(m1, c), 0), LAMBDA m2 :
        IF m2.ex THEN RawMemory_Dtor(m2, c)
        ELSE [m2 EXCEPT !.vec[c].size = Size(m, o), !.vec[c].alive = TRUE]))

\* A variant of the move constructor that leaves other.size_ as it was.
Vector_Move_KeepSize(m, c, o) ==
    [RawMemory_MoveCtor(m, c, o)
        EXCEPT !.vec[c].size = Size(m, o), !.vec[c].alive = TRUE]

\* Vector(Vector&& other).
Vector_Move(m, c, o) ==
    [RawMemory_MoveCtor(m, c, o)
        EXCEPT !.vec[c].size = Size(m, o), !.vec[o].size = 0, !.vec[c].alive = TRUE]

\* ~Vector(): the elements, then the member data_.
Vector_Dtor(m, c) ==
    [RawMemory_Dtor(DestroyN(m, Buf(m, c), 0, Size(m, c)), c)
        EXCEPT !.vec[c].size = 0, !.vec[c].alive = FALSE]

\* Vector::Swap.
Vector_Swap(m, c, o) ==
    [RawMemory_Swap(m, c, o)
        EXCEPT !.vec[c].size = Size(m, o), !.vec[o].size = Size(m, c)]

\* Vector::operator=(const Vector& rhs).
Vector_CopyAssign(m, c, o) ==
    IF c = o THEN m
    ELSE IF Size(m, o) > Capacity(m, c) THEN
        Unless(Vector_Copy(m, Local, o), LAMBDA m1 :       \* Vector rhs_copy(rhs)
            Vector_Dtor(Vector_Swap(m1, c, Local), Local))
    ELSE IF Size(m, o) < Size(m, c) THEN
        Unless(copy_n(m, Buf(m, o), 0, Size(m, o), Buf(m, c), 0), LAMBDA m1 :
            [DestroyN(m1, Buf(m, c), Size(m, o), Size(m, c) - Size(m, o))
                EXCEPT !.vec[c].size = Size(m, o)])
    ELSE
        Unless(copy_n(m, Buf(m, o), 0, Size(m, c), Buf(m, c), 0), LAMBDA m1 :
        Unless(uninitialized_copy_n(m1, Buf(m, o), Size(m, c), Size(m, o) - Size(m, c),
                                 Buf(m, c), Size(m, c)), LAMBDA m2 :
            [m2 EXCEPT !.vec[c].size = Size(m, o)]))

\* size_ = std::exchange(rhs.size_, 0) with this = dst, rhs = src.
ExchangeSize(m, dst, src) ==
    Then([m EXCEPT !.vec[src].size = 0], LAMBDA m1 :
        [m1 EXCEPT !.vec[dst].size = m.vec[src].size])

\* Vector::operator=(Vector&& rhs): the members one after the other; nothing
\* is done about the elements and the block the target held.
Vector_MoveAssign(m, c, o) ==
    ExchangeSize(RawMemory_MoveAssign(m, c, o), c, o)

\* A variant of the transfer that moves whatever T's move constructor may do.
TransferDataSafely_AlwaysMove(m, sb, so, count, db, dof) ==
    uninitialized_move_n(m, sb, so, count, db, dof)

\* Vector::TransferDataSafely.
TransferDataSafely(m, sb, so, count, db, dof) ==
    IF nothrowMove \/ ~CopyConstructible
    THEN uninitialized_move_n(m, sb, so, count, db, dof)
    ELSE uninitialized_copy_n(m, sb, so, count, db, dof)

\* A variant of Reserve without the early return: it reallocates to whatever
\* capacity is asked for.
Vector_Reserve_Always(m, c, new_capacity) ==
    Unless(RawMemory_Ctor(m, Local, new_capacity), LAMBDA m1 :
    Then(TransferDataSafely(m1, Buf(m1, c), 0, Size(m1, c), Buf(m1, Local), 0),
         LAMBDA m2 :
        IF m2.ex THEN EndOfScope(m2)
        ELSE EndOfScope(RawMemory_Swap(DestroyN(m2, Buf(m2, c), 0, Size(m2, c)),
                                       c, Local))))

\* Vector::Reserve.
Vector_Reserve(m, c, new_capacity) ==
    IF new_capacity <= Capacity(m, c) THEN m
    ELSE
        Unless(RawMemory_Ctor(m, Local, new_capacity), LAMBDA m1 :     \* new_data
        Then(TransferDataSafely(m1, Buf(m1, c), 0, Size(m1, c), Buf(m1, Local), 0),
             LAMBDA m2 :
            IF m2.ex THEN EndOfScope(m2)
            ELSE EndOfScope(RawMemory_Swap(DestroyN(m2, Buf(m2, c), 0, Size(m2, c)),
                                           c, Local))))

\* A variant of Resize that grows as PushBack does: to at least twice the
\* capacity.
Vector_Resize_Doubling(m, c, new_size) ==
    IF new_size < Size(m, c) THEN
        [DestroyN(m, Buf(m, c), new_size, Size(m, c) - new_size)
            EXCEPT !.vec[c].size = new_size]
    ELSE
        Unless(Vector_Reserve(m, c, IF new_size <= Capacity(m, c) THEN new_size
                                    ELSE IF new_size >= 2 * Capacity(m, c) THEN new_size
                                    ELSE 2 * Capacity(m, c)), LAMBDA m1 :
        Unless(uninitialized_value_construct_n(m1, Buf(m1, c), Size(m1, c),
                                            new_size - Size(m1, c)), LAMBDA m2 :
            [m2 EXCEPT !.vec[c].size = new_size]))

\* Vector::Resize.
Vector_Resize(m, c, new_size) ==
    IF new_size < Size(m, c) THEN
        [DestroyN(m, Buf(m, c), new_size, Size(m, c) - new_size)
            EXCEPT !.vec[c].size = new_size]
    ELSE
        Unless(Vector_Reserve(m, c, new_size), LAMBDA m1 :
        Unless(uninitialized_value_construct_n(m1, Buf(m1, c), Size(m1, c),
                                            new_size - Size(m1, c)), LAMBDA m2 :
            [m2 EXCEPT !.vec[c].size = new_size]))

\* A variant of the growth rule that makes room for one more element only.
GrownCapacity_OneMore(size) == size + 1

\* A variant of the growth rule without the case of the empty container.
GrownCapacity_Twice(size) == size * 2

\* size_ == 0 ? 1 : size_ * 2
GrownCapacity(size) == IF size = 0 THEN 1 ELSE size * 2

\* ++size_
IncSize(m, c) == [m EXCEPT !.vec[c].size = @ + 1]

\* A variant of PushBack that transfers the elements before it constructs the
\* new one.
Vector_PushBackCopy_TransferFirst(m, c, v) ==
    IF Size(m, c) = Capacity(m, c) THEN
        Unless(RawMemory_Ctor(m, Local, GrownCapacity(Size(m, c))), LAMBDA m1 :
        Then(TransferDataSafely(m1, Buf(m1, c), 0, Size(m1, c), Buf(m1, Local), 0),
             LAMBDA m2 :
            IF m2.ex THEN EndOfScope(m2) ELSE
        Then(NewT(RawMemory_Plus(m2, Local, Size(m2, c)),
                  Buf(m2, Local), Size(m2, c), v, TRUE), LAMBDA m3 :
            IF m3.ex THEN EndOfScope(m3) ELSE
            IncSize(EndOfScope(RawMemory_Swap(DestroyN(m3, Buf(m3, c), 0, Size(m3, c)),
                                              c, Local)), c))))
    ELSE
        Unless(NewT(RawMemory_Plus(m, c, Size(m, c)), Buf(m, c), Size(m, c), v, TRUE),
               LAMBDA m1 : IncSize(m1, c))

\* Vector::PushBack(const T& value).
Vector_PushBackCopy(m, c, v) ==
    IF Size(m, c) = Capacity(m, c) THEN
        Unless(RawMemory_Ctor(m, Local, GrownCapacity(Size(m, c))), LAMBDA m1 :
        Then(NewT(RawMemory_Plus(m1, Local, Size(m1, c)),
                  Buf(m1, Local), Size(m1, c), v, TRUE), LAMBDA m2 :
            IF m2.ex THEN EndOfScope(m2) ELSE
        Then(TransferDataSafely(m2, Buf(m2, c), 0, Size(m2, c), Buf(m2, Local), 0),
             LAMBDA m3 :
            IF m3.ex THEN EndOfScope(m3) ELSE
            IncSize(EndOfScope(RawMemory_Swap(DestroyN(m3, Buf(m3, c), 0, Size(m3, c)),
                                              c, Local)), c))))
    ELSE
        Unless(NewT(RawMemory_Plus(m, c, Size(m, c)), Buf(m, c), Size(m, c), v, TRUE),
               LAMBDA m1 : IncSize(m1, c))

\* Vector::PushBack(T&& value).
Vector_PushBackMove(m, c, v) ==
    IF Size(m, c) = Capacity(m, c) THEN
        Unless(RawMemory_Ctor(m, Local, GrownCapacity(Size(m, c))), LAMBDA m1 :
        Then(NewT(RawMemory_Plus(m1, Local, Size(m1, c)),
                  Buf(m1, Local), Size(m1, c), v, MoveCtorThrows), LAMBDA m2 :
            IF m2.ex THEN EndOfScope(m2) ELSE
        Then(TransferDataSafely(m2, Buf(m2, c), 0, Size(m2, c), Buf(m2, Local), 0),
             LAMBDA m3 :
            IF m3.ex THEN EndOfScope(m3) ELSE
            IncSize(EndOfScope(RawMemory_MoveAssign(
                        DestroyN(m3, Buf(m3, c), 0, Size(m3, c)), c, Local)), c))))
    ELSE
        Unless(NewT(RawMemory_Plus(m, c, Size(m, c)),
                    Buf(m, c), Size(m, c), v, MoveCtorThrows), LAMBDA m1 :
            IncSize(m1, c))

\* The argument of an insertion: a value of the caller's (ref < 0), or a
\* reference to the element at index ref of the container itself.  It is
\* read when T is constructed from it.
ByValue(v) == [ref |-> -1, v |-> v]
ByRef(i) == [ref |-> i, v |-> DefaultValue]
ArgValue(m, c, a) == IF a.ref < 0 THEN a.v ELSE ReadAt(m, Buf(m, c), a.ref)

\* The iterator begin() + offset of container c.
Returning(m, c, offset) == [m EXCEPT !.ret = [buf |-> Buf(m, c), idx |-> offset]]

\* Vector::EmplaceBack(Args&&... args); it returns the new element.  canThrow
\* tells whether the constructor chosen by args may throw.
Vector_EmplaceBack(m, c, a, canThrow) ==
    IF Size(m, c) = Capacity(m, c) THEN
        Unless(RawMemory_Ctor(m, Local, GrownCapacity(Size(m, c))), LAMBDA m1 :
        Then(NewT(RawMemory_Plus(m1, Local, Size(m1, c)),
                  Buf(m1, Local), Size(m1, c), ArgValue(m1, c, a), canThrow),
             LAMBDA m2 :
            IF m2.ex THEN EndOfScope(m2) ELSE
        Then(TransferDataSafely(m2, Buf(m2, c), 0, Size(m2, c), Buf(m2, Local), 0),
             LAMBDA m3 :
            IF m3.ex THEN EndOfScope(m3) ELSE
            Returning(IncSize(EndOfScope(RawMemory_MoveAssign(
                          DestroyN(m3, Buf(m3, c), 0, Size(m3, c)), c, Local)), c),
                      c, Size(m, c)))))
    ELSE
        Unless(NewT(RawMemory_Plus(m, c, Size(m, c)),
                    Buf(m, c), Size(m, c), ArgValue(m, c, a), canThrow), LAMBDA m1 :
            Returning(IncSize(m1, c), c, Size(m, c)))

\* Vector::operator[](size_t index): the reference data_[index].
Vector_Index(m, c, index) == RawMemory_Index(m, c, index)

\* Vector::PopBack.
Vector_PopBack(m, c) ==
    [DestroyAt(m, Buf(m, c), Size(m, c) - 1) EXCEPT !.vec[c].size = @ - 1]

\* The temporary T(std::forward<Args>(args)...) is built (and destroyed at the
\* end of the statement); its value is read by the caller.
Temporary(m, canThrow) ==
    IF canThrow /\ m.fc = 1 THEN Throw(m, "T(value)")
    ELSE IF canThrow THEN Tick(m) ELSE m

\* Vector::Emplace, the first catch (...): the new element is destroyed and the
\* exception goes on, through the destructor of new_data.
Emplace_FirstCatch(m, offset) ==
    EndOfScope(DestroyAt(m, Buf(m, Local), offset))

\* A variant of the second handler that does what the first one does.
Emplace_SecondCatch_NewElementOnly(m, offset) ==
    EndOfScope(DestroyAt(m, Buf(m, Local), offset))

\* Vector::Emplace, the second catch (...): the prefix and the new element.
Emplace_SecondCatch(m, offset) ==
    EndOfScope(DestroyN(m, Buf(m, Local), 0, offset + 1))

\* Vector::Emplace for pos != end(): the part of the body after the first if.
Vector_EmplaceInside(m, c, offset, a, canThrow) ==
    IF Size(m, c) = Capacity(m, c) THEN
        Unless(RawMemory_Ctor(m, Local, GrownCapacity(Size(m, c))), LAMBDA m1 :
        Then(NewT(RawMemory_Plus(m1, Local, offset),
                  Buf(m1, Local), offset, ArgValue(m1, c, a), canThrow), LAMBDA m2 :
            IF m2.ex THEN EndOfScope(m2) ELSE
        Then(TransferDataSafely(m2, Buf(m2, c), 0, offset, Buf(m2, Local), 0),
             LAMBDA m3 :
            IF m3.ex THEN Emplace_FirstCatch(m3, offset) ELSE
        Then(TransferDataSafely(m3, Buf(m3, c), offset, Size(m3, c) - offset,
                                Buf(m3, Local), offset + 1), LAMBDA m4 :
            IF m4.ex THEN Emplace_SecondCatch(m4, offset) ELSE
            Returning(IncSize(EndOfScope(RawMemory_MoveAssign(
                          DestroyN(m4, Buf(m4, c), 0, Size(m4, c)), c, Local)), c),
                      c, offset)))))
    ELSE
        \* new (end()) T(std::forward<T>(*(end() - 1)))
        Unless(NewT(m, Buf(m, c), Size(m, c), ReadAt(m, Buf(m, c), Size(m, c) - 1),
                 MoveCtorThrows), LAMBDA m1 :
        Unless(move_backward(MoveOut(m1, Buf(m, c), Size(m, c) - 1), Buf(m, c),
                          offset, Size(m, c) - 1, Size(m, c)), LAMBDA m2 :
        Unless(Temporary(m2, canThrow), LAMBDA m3 :
        \* data_[offset] = the temporary, built from args as they are now
        Unless(AssignT(RawMemory_Index(m3, c, offset),
                       Buf(m, c), offset, ArgValue(m2, c, a)), LAMBDA m4 :
            Returning(IncSize(m4, c), c, offset)))))

\* A variant of Emplace without the branch for pos == end().
Vector_Emplace_NoEndBranch(m, c, offset, a, canThrow) ==
    Vector_EmplaceInside(m, c, offset, a, canThrow)

\* Vector::Emplace(const_iterator pos, Args&&... args) with
\* offset = pos - cbegin(); it returns begin() + offset.
Vector_Emplace(m, c, offset, a, canThrow) ==
    IF offset = Size(m, c) THEN                        \* pos == end()
        Unless(Vector_EmplaceBack(m, c, a, canThrow), LAMBDA m1 :
            Returning(m1, c, offset))
    ELSE Vector_EmplaceInside(m, c, offset, a, canThrow)

\* Vector::Erase(const_iterator pos) with offset = pos - cbegin(); it returns
\* pos.
Vector_Erase(m, c, offset) ==
    Unless(move_forward(m, Buf(m, c), offset + 1, Size(m, c), offset), LAMBDA m1 :
        Returning([DestroyAt(m1, Buf(m, c), Size(m, c) - 1)
                      EXCEPT !.vec[c].size = @ - 1], c, offset))

\* Vector::Insert(const_iterator pos, const T& value).
Vector_InsertCopy(m, c, offset, a) == Vector_Emplace(m, c, offset, a, TRUE)

\* Vector::Insert(const_iterator pos, T&& value).
Vector_InsertMove(m, c, offset, a) == Vector_Emplace(m, c, offset, a, MoveCtorThrows)

\* ------------------------------------------------------------- the system
Alive(c) == vec[c].alive
Full(c) == vec[c].size = vec[c].cap

\* The choices of the throwing call, given how the operation ran with none
\* throwing: none (0), or one of the calls it made.
Fails(r0) == 0..r0.calls
Sizes == 0..MaxCap

\* The capacity bound: MaxCap for A while it is the only container alive,
\* MaxCapPair otherwise.
Fits(r) ==
    /\ r.vec["B"].cap <= MaxCapPair
    /\ r.vec["A"].cap <= (IF r.vec["B"].alive THEN MaxCapPair ELSE MaxCap)

\* What the call leaves behind when it returns: a block no RawMemory holds is
\* out of reach for good.
RECURSIVE DropAll(_, _)
DropAll(m, bs) ==
    IF bs = {} THEN m
    ELSE LET b == CHOOSE x \in bs : TRUE IN DropAll(Dropped(m, b), bs \ {b})

AtReturn(m) == DropAll(m, BlockIds)

\* Addresses are only ever compared with each other, so a state is kept up
\* to the names of its blocks: the block of A is named first, then B's.
NameOf(r, c) ==
    LET a == r.vec["A"].buf
        b == r.vec["B"].buf
    IN IF r.vec[c].buf = NullBuf THEN NullBuf
       ELSE IF c = "A" \/ a = NullBuf \/ b = a THEN 1
       ELSE 2

Renamed(r) ==
    [b \in BlockIds |->
        IF \E c \in Containers : r.vec[c].buf # NullBuf /\ NameOf(r, c) = b
        THEN r.heap[r.vec[CHOOSE c \in Containers :
                              r.vec[c].buf # NullBuf /\ NameOf(r, c) = b].buf]
        ELSE <<>>]

\* The operation ended in m: what it left becomes the state.
Done(m) ==
    LET r == AtReturn(m)
    IN /\ Fits(r)
       /\ heap' = Renamed(r)
       /\ vec' = [c \in Containers |-> [r.vec[c] EXCEPT !.buf = NameOf(r, c)]]
       /\ UNCHANGED nothrowMove

Init ==
    /\ heap = [b \in BlockIds |-> <<>>]
    /\ vec = [c \in Containers |-> NoObject]
    /\ nothrowMove \in BOOLEAN

\* A call: the member function op of container c, with the other container
\* o, the position or size p and the value v where it takes them.
Call(op, c, o, p, v) == [op |-> op, c |-> c, o |-> o, p |-> p, v |-> v]

\* What the caller must guarantee (and which object exists) for call k.
Pre(k) ==
    CASE k.op \in {"Vector()", "Vector(size_t)"} -> ~Alive(k.c)
      [] k.op \in {"Vector(const Vector&)", "Vector(Vector&&)"} ->
             ~Alive(k.c) /\ Alive(k.o)
      [] k.op \in {"operator=(const Vector&)", "operator=(Vector&&)", "Swap"} ->
             Alive(k.c) /\ Alive(k.o)
      [] k.op = "PopBack" -> Alive(k.c) /\ vec[k.c].size > 0
      [] k.op \in {"Emplace", "Insert(const T&)", "Insert(T&&)"} ->
             Alive(k.c) /\ k.p <= vec[k.c].size
      [] k.op = "Erase" -> Alive(k.c) /\ k.p < vec[k.c].size
      [] k.op = "operator[]" -> Alive(k.c) /\ k.p < vec[k.c].size
      [] k.op = "Insert(pos, (*this)[i])" ->
             Alive(k.c) /\ k.p <= vec[k.c].size /\ k.v < vec[k.c].size
      [] OTHER -> Alive(k.c)

\* Call k run on the present state, the f-th throwing-capable call throwing.
Run(k, f) ==
    LET m == Start(f)
    IN CASE k.op = "Vector()" -> Vector_Default(m, k.c)
         [] k.op = "Vector(size_t)" -> Vector_Sized(m, k.c, k.p)
         [] k.op = "Vector(const Vector&)" -> Vector_Copy(m, k.c, k.o)
         [] k.op = "Vector(Vector&&)" -> Vector_Move(m, k.c, k.o)
         [] k.op = "~Vector" -> Vector_Dtor(m, k.c)
         [] k.op = "operator=(const Vector&)" -> Vector_CopyAssign(m, k.c, k.o)
         [] k.op = "operator=(Vector&&)" -> Vector_MoveAssign(m, k.c, k.o)
         [] k.op = "Swap" -> Vector_Swap(m, k.c, k.o)
         [] k.op = "Reserve" -> Vector_Reserve(m, k.c, k.p)
         [] k.op = "Resize" -> Vector_Resize(m, k.c, k.p)
         [] k.op = "PushBack(const T&)" -> Vector_PushBackCopy(m, k.c, k.v)
         [] k.op = "PushBack(T&&)" -> Vector_PushBackMove(m, k.c, k.v)
         [] k.op = "EmplaceBack" -> Vector_EmplaceBack(m, k.c, ByValue(k.v), TRUE)
         [] k.op = "PopBack" -> Vector_PopBack(m, k.c)
         [] k.op = "Emplace" -> Vector_Emplace(m, k.c, k.p, ByValue(k.v), TRUE)
         [] k.op = "Insert(const T&)" -> Vector_InsertCopy(m, k.c, k.p, ByValue(k.v))
         [] k.op = "Insert(T&&)" -> Vector_InsertMove(m, k.c, k.p, ByValue(k.v))
         [] k.op = "Erase" -> Vector_Erase(m, k.c, k.p)
         [] k.op = "operator[]" ->                   \* v[p] = value
                AssignT(Vector_Index(m, k.c, k.p), Buf(m, k.c), k.p, k.v)
         [] k.op = "Insert(pos, (*this)[i])" ->
                Vector_InsertCopy(Vector_Index(m, k.c, k.v), k.c, k.p, ByRef(k.v))

\* Call k is made: it runs to its end, with any one of its throwing-capable
\* calls throwing or none.
Outcome(k) == \E f \in Fails(Run(k, 0)) : Done(Run(k, f))

DefaultCtor(c) ==
    LET k == Call("Vector()", c, c, 0, 0)
    IN Pre(k) /\ Outcome(k)

SizedCtor(c, n) ==
    LET k == Call("Vector(size_t)", c, c, n, 0)
    IN Pre(k) /\ Outcome(k)

CopyCtor(c, o) ==
    LET k == Call("Vector(const Vector&)", c, o, 0, 0)
    IN Pre(k) /\ Outcome(k)

MoveCtor(c, o) ==
    LET k == Call("Vector(Vector&&)", c, o, 0, 0)
    IN Pre(k) /\ Outcome(k)

Dtor(c) ==
    LET k == Call("~Vector", c, c, 0, 0)
    IN Pre(k) /\ Outcome(k)

CopyAssign(c, o) ==
    LET k == Call("operator=(const Vector&)", c, o, 0, 0)
    IN Pre(k) /\ Outcome(k)

MoveAssign(c, o) ==
    LET k == Call("operator=(Vector&&)", c, o, 0, 0)
    IN Pre(k) /\ Outcome(k)

Swap(c, o) ==
    LET k == Call("Swap", c, o, 0, 0)
    IN Pre(k) /\ Outcome(k)

Reserve(c, n) ==
    LET k == Call("Reserve", c, c, n, 0)
    IN Pre(k) /\ Outcome(k)

Resize(c, n) ==
    LET k == Call("Resize", c, c, n, 0)
    IN Pre(k) /\ Outcome(k)

PushBackCopy(c, v) ==
    LET k == Call("PushBack(const T&)", c, c, 0, v)
    IN Pre(k) /\ Outcome(k)

PushBackMove(c, v) ==
    LET k == Call("PushBack(T&&)", c, c, 0, v)
    IN Pre(k) /\ Outcome(k)

EmplaceBack(c, v) ==
    LET k == Call("EmplaceBack", c, c, 0, v)
    IN Pre(k) /\ Outcome(k)

PopBack(c) ==
    LET k == Call("PopBack", c, c, 0, 0)
    IN Pre(k) /\ Outcome(k)

Emplace(c, p, v) ==
    LET k == Call("Emplace", c, c, p, v)
    IN Pre(k) /\ Outcome(k)

InsertCopy(c, p, v) ==
    LET k == Call("Insert(const T&)", c, c, p, v)
    IN Pre(k) /\ Outcome(k)

InsertMove(c, p, v) ==
    LET k == Call("Insert(T&&)", c, c, p, v)
    IN Pre(k) /\ Outcome(k)

Erase(c, p) ==
    LET k == Call("Erase", c, c, p, 0)
    IN Pre(k) /\ Outcome(k)

\* v[i] = value: the caller assigns through the reference operator[] returns.
WriteAt(c, i, v) ==
    LET k == Call("operator[]", c, c, i, v)
    IN Pre(k) /\ Outcome(k)

\* v.Insert(v.begin() + p, v[i]): the argument refers to an element of v.
InsertElement(c, p, i) ==
    LET k == Call("Insert(pos, (*this)[i])", c, c, p, i)
    IN Pre(k) /\ Outcome(k)

Next ==
    \/ \E c \in Containers : DefaultCtor(c)
    \/ \E c \in Containers, n \in Sizes : SizedCtor(c, n)
    \/ \E c, o \in Containers : CopyCtor(c, o)
    \/ \E c, o \in Containers : MoveCtor(c, o)
    \/ \E c \in Containers : Dtor(c)
    \/ \E c, o \in Containers : CopyAssign(c, o)
    \/ \E c, o \in Containers : MoveAssign(c, o)
    \/ \E c, o \in Containers : Swap(c, o)
    \/ \E c \in Containers, n \in Sizes : Reserve(c, n)
    \/ \E c \in Containers, n \in Sizes : Resize(c, n)
    \/ \E c \in Containers, v \in Values : PushBackCopy(c, v)
    \/ \E c \in Containers, v \in Values : PushBackMove(c, v)
    \/ \E c \in Containers, v \in Values : EmplaceBack(c, v)
    \/ \E c \in Containers : PopBack(c)
    \/ \E c \in Containers, p \in Sizes, v \in Values : Emplace(c, p, v)
    \/ \E c \in Containers, p \in Sizes, v \in Values : InsertCopy(c, p, v)
    \/ \E c \in Containers, p \in Sizes, v \in Values : InsertMove(c, p, v)
    \/ \E c \in Containers, p \in Sizes : Erase(c, p)
    \/ \E c \in Containers, i \in Sizes, v \in Values : WriteAt(c, i, v)
    \/ \E c \in Containers, p \in Sizes, i \in Sizes : InsertElement(c, p, i)

Spec == Init /\ [][Next]_vars

\* ------------------------------------------------------------- calls
\* The calls of Next, as data: the formulas below run them on every
\* reachable state.
InsertOps == {"Emplace", "Insert(const T&)", "Insert(T&&)"}
TailOps == {"PushBack(const T&)", "PushBack(T&&)", "EmplaceBack"}

Calls ==
    {Call(op, c, c, 0, 0) : op \in {"Vector()", "~Vector", "PopBack"},
                                    c \in Containers}
    \cup {Call(op, c, c, n, 0) : op \in {"Vector(size_t)", "Reserve", "Resize", "Erase"},
                                     c \in Containers, n \in Sizes}
    \cup {Call(op, c, o, 0, 0) :
              op \in {"Vector(const Vector&)", "Vector(Vector&&)",
                      "operator=(const Vector&)", "operator=(Vector&&)", "Swap"},
              c \in Containers, o \in Containers}
    \cup {Call(op, c, c, 0, v) : op \in TailOps, c \in Containers, v \in Values}
    \cup {Call(op, c, c, p, v) : op \in InsertOps \cup {"operator[]"},
                                 c \in Containers, p \in Sizes, v \in Values}
    \cup {Call("Insert(pos, (*this)[i])", c, c, p, i) :
              c \in Containers, p \in Sizes, i \in Sizes}

\* The calls that can be made now.
Enabled == {k \in Calls : Pre(k)}

\* The elements of container c in machine state m, first to last.
Elems(m, c) == [i \in 1..Size(m, c) |-> ReadAt(m, Buf(m, c), i - 1)]

\* The present state, as the state a call starts from.
Now == Start(0)

\* ------------------------------------------------------------- properties
\* What call k leaves behind when its f-th throwing-capable call throws
\* (f = 0: none does).
Ran(k, f) == AtReturn(Run(k, f))

\* P(k, r) for every call k that can be made now and every way r it can end.
EveryOutcome(P(_, _)) ==
    \A k \in Enabled : \A f \in Fails(Run(k, 0)) : P(k, Ran(k, f))

\* P(k, r) for some call k that can be made now and some way r it can end.
SomeOutcome(P(_, _)) ==
    \E k \in Enabled : \E f \in Fails(Run(k, 0)) : P(k, Ran(k, f))

Max(a, b) == IF a >= b THEN a ELSE b

\* In machine state m, exactly the slots [0, size) of object n's block hold
\* an element.
SlotsOK(m, n) ==
    IF Buf(m, n) = NullBuf THEN Size(m, n) = 0
    ELSE /\ Len(m.heap[Buf(m, n)]) = Capacity(m, n)
         /\ \A i \in 0..(Capacity(m, n) - 1) :
                IsLive(m.heap, Buf(m, n), i) <=> i < Size(m, n)

\* The sequence s with v put before its element p (counted from 0).
InsertAt(s, p, v) == SubSeq(s, 1, p) \o <<v>> \o SubSeq(s, p + 1, Len(s))

\* The sequence s without its element p (counted from 0).
RemoveAt(s, p) == SubSeq(s, 1, p) \o SubSeq(s, p + 2, Len(s))

\* C1: in every reachable state, and in the state any call that can be made
\* there leaves behind, whether it returns or throws because an allocation or
\* an element construction failed, 0 <= Size() <= Capacity() for every
\* container.
C1_SizeWithinCapacity ==
    /\ \A c \in Containers : 0 <= vec[c].size /\ vec[c].size <= vec[c].cap
    /\ EveryOutcome(LAMBDA k, r :
           \A c \in Containers : 0 <= Size(r, c) /\ Size(r, c) <= Capacity(r, c))

\* C1's case: a container filled to its capacity of two or more, on which a
\* call fails and leaves it filled to its capacity.
C1_Witness ==
    \E c \in Containers :
        /\ Alive(c) /\ vec[c].size = vec[c].cap /\ vec[c].size >= 2
        /\ SomeOutcome(LAMBDA k, r :
               k.c = c /\ r.ex /\ Size(r, c) = Capacity(r, c) /\ Size(r, c) >= 2)

\* C2: after every operation that returns without throwing, in any sequence
\* of operations, exactly the slots [0, Size()) of the buffer of each
\* container the call was made on hold a live element, and the slots
\* [Size(), Capacity()) are raw.
C2_LiveSlotsAfterSuccess ==
    EveryOutcome(LAMBDA k, r :
        ~r.ex => \A c \in {k.c, k.o} : r.vec[c].alive => SlotsOK(r, c))

\* C3: every allocated block is held by exactly one RawMemory, no call leaves
\* a block that no RawMemory holds or releases a block twice, and when no
\* container is left no block is left.
C3_BlocksReleasedOnce ==
    /\ \A b \in BlockIds :
           heap[b] # <<>> => Cardinality({c \in Containers : vec[c].buf = b}) = 1
    /\ (\A c \in Containers : ~Alive(c)) => \A b \in BlockIds : heap[b] = <<>>
    /\ EveryOutcome(LAMBDA k, r : r.leaked = 0 /\ r.dfrees = 0)

\* C4: every element constructed in a buffer is destroyed exactly once: no
\* call lets the storage of a live element go (by releasing or dropping its
\* block, or by building another element over it), none destroys a slot that
\* holds no element, and when no container is left no element is left.
C4_ElementsDestroyedOnce ==
    /\ (\A c \in Containers : ~Alive(c)) =>
           \A b \in BlockIds : LiveCount(heap, b) = 0
    /\ EveryOutcome(LAMBDA k, r : r.lost = 0 /\ r.ub = 0)

\* C5: a PushBack, EmplaceBack, Emplace or Insert call allocates a buffer
\* (once) if and only if Size() = Capacity() when it is made; when it then
\* returns, Capacity() is max(1, 2 * the capacity before); made with
\* Size() < Capacity(), it leaves Capacity() as it was.
C5_GrowthRule ==
    EveryOutcome(LAMBDA k, r :
        k.op \in TailOps \cup InsertOps =>
            /\ (r.allocs > 0 \/ r.thrower = "operator new") <=> Full(k.c)
            /\ r.allocs <= 1
            /\ ~Full(k.c) => Capacity(r, k.c) = vec[k.c].cap
            /\ Full(k.c) /\ ~r.ex =>
                   Capacity(r, k.c) = Max(1, 2 * vec[k.c].cap))

\* C5's case: a container filled to its capacity of two or more grows by an
\* Emplace or Insert to twice that capacity.
C5_Witness ==
    \E c \in Containers :
        /\ Alive(c) /\ Full(c) /\ vec[c].cap >= 2
        /\ SomeOutcome(LAMBDA k, r :
               /\ k.c = c /\ k.op \in InsertOps /\ ~r.ex
               /\ r.allocs = 1 /\ Capacity(r, c) = 2 * vec[c].cap)

C7_FailedTailGrowthCleansUp ==
    EveryOutcome(LAMBDA k, r :
        /\ k.op \in TailOps /\ Full(k.c) /\ r.ex
        /\ r.thrower \in {"uninitialized_copy_n", "uninitialized_move_n"}
        => r.lost = 0 /\ r.leaked = 0 /\ r.frees = r.allocs)

\* The calls of C8: the paths that do not reallocate.
NonReallocating(k) ==
    \/ k.op \in InsertOps /\ k.p < vec[k.c].size /\ ~Full(k.c)
    \/ k.op = "Erase"
    \/ k.op = "operator=(const Vector&)" /\ k.c # k.o /\ vec[k.o].size <= vec[k.c].cap

\* C8: when an Emplace or Insert before the end with room left, an Erase, or
\* an in-place copy-assignment throws, on containers whose live elements were
\* exactly those in [0, Size()), the live elements of the container are again
\* exactly those in [0, Size()).
C8_ValidAfterFailureInPlace ==
    EveryOutcome(LAMBDA k, r :
        /\ NonReallocating(k) /\ r.ex
        /\ SlotsOK(Now, k.c) /\ SlotsOK(Now, k.o)
        => SlotsOK(r, k.c))

\* C9: an Emplace or Insert of v at position p <= Size() that returns leaves
\* old[0..p) ++ [v] ++ old[p..Size()) with Size() one more, and returns
\* begin() + p, with and without growth; an Erase at p < Size() that returns
\* leaves old[0..p) ++ old[p+1..Size()) with Size() one less and Capacity()
\* as it was, and returns begin() + p.
C9_InsertAndEraseResults ==
    EveryOutcome(LAMBDA k, r :
        /\ k.op \in InsertOps /\ ~r.ex =>
               /\ Elems(r, k.c) = InsertAt(Elems(Now, k.c), k.p, k.v)
               /\ Size(r, k.c) = vec[k.c].size + 1
               /\ r.ret = [buf |-> Buf(r, k.c), idx |-> k.p]
        /\ k.op = "Erase" /\ ~r.ex =>
               /\ Elems(r, k.c) = RemoveAt(Elems(Now, k.c), k.p)
               /\ Size(r, k.c) = vec[k.c].size - 1
               /\ Capacity(r, k.c) = vec[k.c].cap
               /\ r.ret = [buf |-> Buf(r, k.c), idx |-> k.p])

\* C9's case: a container of three elements, the first two not both 0, with
\* room for a fourth, takes an Insert at the front without growing.
C9_Witness ==
    \E c \in Containers :
        /\ Alive(c) /\ vec[c].size = 3 /\ vec[c].cap = 4
        /\ Elems(Now, c)[1] # Elems(Now, c)[2]
        /\ SomeOutcome(LAMBDA k, r :
               /\ k.c = c /\ k.op = "Insert(const T&)" /\ k.p = 0 /\ ~r.ex
               /\ r.allocs = 0 /\ Size(r, c) = 4)

\* C10: from every state and for every value v, an Emplace or Insert of v at
\* position Size() that returns leaves the same elements, Size() and
\* Capacity() as a PushBack or EmplaceBack of v from that state.
C10_InsertAtEndIsPushBack ==
    \A c \in Containers, v \in Values :
        Alive(c) =>
            \A io \in InsertOps, to \in TailOps :
                LET e == Ran(Call(io, c, c, vec[c].size, v), 0)
                    t == Ran(Call(to, c, c, 0, v), 0)
                IN /\ ~e.ex /\ ~t.ex
                   /\ Elems(e, c) = Elems(t, c)
                   /\ Size(e, c) = Size(t, c)
                   /\ Capacity(e, c) = Capacity(t, c)

\* C10's case: an Emplace at the end of an empty container with no buffer
\* leaves what a PushBack leaves: the one element, in a buffer of capacity 1.
C10_Witness ==
    \E c \in Containers, v \in Values :
        /\ Alive(c) /\ vec[c].buf = NullBuf /\ vec[c].size = 0
        /\ LET e == Ran(Call("Emplace", c, c, 0, v), 0)
               t == Ran(Call("PushBack(const T&)", c, c, 0, v), 0)
           IN /\ ~e.ex /\ Elems(e, c) = <<v>> /\ Capacity(e, c) = 1
              /\ Elems(t, c) = <<v>> /\ Capacity(t, c) = 1

\* The slots of container d's block in machine state m.
Block(m, d) == IF Buf(m, d) = NullBuf THEN <<>> ELSE m.heap[Buf(m, d)]

\* Call result r left container d as it is now: its members and its block.
Untouched(r, d) == r.vec[d] = vec[d] /\ Block(r, d) = Block(Now, d)

\* How many times ev was done during the call that ended in r.
Count(r, ev) == Cardinality({i \in 1..Len(r.log) : r.log[i].ev = ev})

\* C11: a returning copy construction of c from o gives c
\* Size() = Capacity() = o.Size() and o's elements in order, in a buffer of
\* its own, and leaves o as it was; two containers never hold the same
\* buffer; and whatever is done to one container alone (element write,
\* PushBack, Insert, Erase, Resize, PopBack, destruction, ...), returning or
\* throwing, leaves the other container's members and elements as they were.
C11_CopyIsIndependent ==
    /\ \A c, o \in Containers :
           c # o /\ vec[c].buf # NullBuf => vec[c].buf # vec[o].buf
    /\ EveryOutcome(LAMBDA k, r :
           k.op = "Vector(const Vector&)" /\ ~r.ex =>
               /\ Size(r, k.c) = vec[k.o].size
               /\ Capacity(r, k.c) = vec[k.o].size
               /\ Elems(r, k.c) = Elems(Now, k.o)
               /\ Untouched(r, k.o)
               /\ Buf(r, k.c) = NullBuf \/ Buf(r, k.c) # Buf(r, k.o))
    /\ EveryOutcome(LAMBDA k, r :
           k.c = k.o => \A d \in Containers \ {k.c} : Untouched(r, d))

\* C11's case: two containers with the same elements, at least one, in
\* different buffers, and a write to an element of one of them that changes it.
C11_Witness ==
    \E a, b \in Containers :
        /\ a # b /\ Alive(a) /\ Alive(b) /\ vec[a].size >= 1
        /\ Elems(Now, a) = Elems(Now, b) /\ vec[a].buf # vec[b].buf
        /\ SomeOutcome(LAMBDA k, r :
               /\ k.c = b /\ k.op = "operator[]" /\ ~r.ex
               /\ Elems(r, b) # Elems(Now, b) /\ Untouched(r, a))

\* The calls that move container k.o into another container k.c.
IsMove(k) ==
    \/ k.op = "Vector(Vector&&)"
    \/ k.op = "operator=(Vector&&)" /\ k.c # k.o

\* C12: moving o into c (move construction, or move assignment to another
\* container) does not throw; c then holds o's buffer, with o's elements in
\* order, o's Size() and o's Capacity(); o has Size() = 0, Capacity() = 0 and
\* a null buffer; and no element was constructed or destroyed and no block
\* allocated.
C12_MoveTransfersBuffer ==
    EveryOutcome(LAMBDA k, r :
        IsMove(k) =>
            /\ ~r.ex
            /\ Elems(r, k.c) = Elems(Now, k.o)
            /\ Size(r, k.c) = vec[k.o].size
            /\ Capacity(r, k.c) = vec[k.o].cap
            /\ Buf(r, k.c) = vec[k.o].buf
            /\ Size(r, k.o) = 0 /\ Capacity(r, k.o) = 0 /\ Buf(r, k.o) = NullBuf
            /\ Count(r, "construct") = 0 /\ Count(r, "destroy") = 0
            /\ r.allocs = 0)

\* C12's case: a container with an element is moved into the other one, which
\* then has the element.
C12_Witness ==
    \E a \in Containers :
        /\ Alive(a) /\ vec[a].size >= 1
        /\ SomeOutcome(LAMBDA k, r :
               /\ IsMove(k) /\ k.o = a
               /\ Len(Elems(r, k.c)) >= 1 /\ Size(r, a) = 0)

Min(a, b) == IF a <= b THEN a ELSE b

\* The slots of block b destroyed during the call that ended in r.
Destroyed(r, b) == {r.log[i].i : i \in {j \in 1..Len(r.log) :
                                          r.log[j].ev = "destroy" /\ r.log[j].b = b}}

\* C15: a Resize(n) that returns leaves Size() = n and the first
\* min(old Size(), n) elements as they were; with n < Size() it destroys
\* exactly the elements [n, old Size()) and keeps buffer and Capacity(); with
\* n >= Size() the elements [old Size(), n) are T() and Capacity() is the old
\* one if n fits in it and n otherwise.  A Vector(n) that returns has
\* Size() = Capacity() = n and n elements T().
C15_ResizeAndSizedCtor ==
    EveryOutcome(LAMBDA k, r :
        /\ k.op = "Resize" /\ ~r.ex =>
               /\ Size(r, k.c) = k.p
               /\ \A i \in 1..Min(vec[k.c].size, k.p) :
                      Elems(r, k.c)[i] = Elems(Now, k.c)[i]
               /\ k.p < vec[k.c].size =>
                      /\ Destroyed(r, vec[k.c].buf) = k.p..(vec[k.c].size - 1)
                      /\ Count(r, "destroy") = vec[k.c].size - k.p
                      /\ Capacity(r, k.c) = vec[k.c].cap
                      /\ Buf(r, k.c) = vec[k.c].buf
               /\ k.p >= vec[k.c].size =>
                      /\ \A i \in (vec[k.c].size + 1)..k.p :
                             Elems(r, k.c)[i] = DefaultValue
                      /\ Capacity(r, k.c) = (IF k.p <= vec[k.c].cap
                                             THEN vec[k.c].cap ELSE k.p)
        /\ k.op = "Vector(size_t)" /\ ~r.ex =>
               /\ Size(r, k.c) = k.p /\ Capacity(r, k.c) = k.p
               /\ Elems(r, k.c) = [i \in 1..k.p |-> DefaultValue])

\* C15's case: a container of two elements, the first not T(), filled to its
\* capacity, is resized to three and to one.
C15_Witness ==
    \E c \in Containers :
        /\ Alive(c) /\ vec[c].size = 2 /\ vec[c].cap = 2
        /\ Elems(Now, c)[1] # DefaultValue
        /\ SomeOutcome(LAMBDA k, r :
               /\ k.c = c /\ k.op = "Resize" /\ k.p = 3 /\ ~r.ex
               /\ Capacity(r, c) = 3 /\ Elems(r, c)[3] = DefaultValue)
        /\ SomeOutcome(LAMBDA k, r :
               /\ k.c = c /\ k.op = "Resize" /\ k.p = 1 /\ ~r.ex
               /\ Size(r, c) = 1 /\ Capacity(r, c) = 2)

\* C16: an Insert before the end, with room left, of an argument that refers
\* to the element at index i of the container itself puts at the position the
\* value that element had when the call was made.
C16_AliasedArgumentInPlace ==
    EveryOutcome(LAMBDA k, r :
        /\ k.op = "Insert(pos, (*this)[i])" /\ ~r.ex
        /\ k.p < vec[k.c].size /\ ~Full(k.c)
        => Elems(r, k.c)[k.p + 1] = Elems(Now, k.c)[k.v + 1])

\* The block allocated during the call that ended in r.
NewBlock(r) == r.log[CHOOSE i \in 1..Len(r.log) : r.log[i].ev = "allocate"].b

\* An Emplace or Insert before the end of a container filled to its capacity.
GrowsInside(k) == k.op \in InsertOps /\ Full(k.c) /\ k.p < vec[k.c].size

\* C17: when an Emplace or Insert at p < Size() with Size() = Capacity()
\* throws out of the copy of an element to the new buffer, after n copies:
\* with n < p (prefix) exactly the new element and the n copies are
\* destroyed, with n >= p (suffix) exactly the new element, the p prefix
\* elements and the n - p suffix copies; nothing stays constructed in the new
\* buffer, the new buffer is released, and the container's buffer, elements,
\* Size() and Capacity() are as before.  The old elements are destroyed and
\* the buffer adopted only in a call that returns.
C17_EmplaceGrowthRollback ==
    EveryOutcome(LAMBDA k, r :
        /\ GrowsInside(k) /\ r.thrower = "uninitialized_copy_n" =>
               /\ Destroyed(r, NewBlock(r)) =
                      {k.p} \cup (IF Count(r, "copy from") < k.p
                                  THEN 0..(Count(r, "copy from") - 1)
                                  ELSE 0..Count(r, "copy from"))
               /\ Count(r, "destroy") = Count(r, "construct")
               /\ r.lost = 0 /\ r.leaked = 0 /\ r.ub = 0
               /\ r.allocs = 1 /\ r.frees = 1 /\ r.heap[NewBlock(r)] = <<>>
               /\ Untouched(r, k.c)
        /\ GrowsInside(k) =>
               /\ Destroyed(r, vec[k.c].buf) =
                      (IF r.ex THEN {} ELSE 0..(vec[k.c].size - 1))
               /\ Count(r, "adopt") = (IF r.ex THEN 0 ELSE 1))

\* C17's case: T's move constructor may throw, and an Emplace at position 1 of
\* a container filled to its capacity of two or more can fail in the copy of
\* the prefix and in the copy of the suffix.
C17_Witness ==
    /\ ~nothrowMove
    /\ \E c \in Containers :
        /\ Alive(c) /\ Full(c) /\ vec[c].size >= 2
        /\ SomeOutcome(LAMBDA k, r :
               /\ k.c = c /\ k.op = "Emplace" /\ k.p = 1
               /\ r.thrower = "uninitialized_copy_n" /\ Count(r, "copy from") = 0
               /\ Destroyed(r, NewBlock(r)) = {1})
        /\ SomeOutcome(LAMBDA k, r :
               /\ k.c = c /\ k.op = "Emplace" /\ k.p = 1
               /\ r.thrower = "uninitialized_copy_n" /\ Count(r, "copy from") = 1
               /\ Destroyed(r, NewBlock(r)) = {0, 1})

\* The steps of the call that ended in r, before its step i, that satisfy P.
Before(r, i, P(_)) == {j \in 1..(i - 1) : P(r.log[j])}

\* The slot of the new buffer the new element of call k goes to.
NewSlot(k) == IF k.op \in TailOps THEN vec[k.c].size ELSE k.p

\* C18: in every PushBack, EmplaceBack, Emplace or Insert made with
\* Size() = Capacity(), however it ends: the allocation is the first step;
\* the first object constructed is the new element, in its slot of the new
\* buffer; no element of the old buffer is copied from, moved from or
\* destroyed before that; and an element of the old buffer is destroyed, and
\* the new buffer adopted, only after all Size() elements have been
\* transferred, the adoption after the destruction of all of them.
C18_GrowthOrder ==
    EveryOutcome(LAMBDA k, r :
        k.op \in TailOps \cup InsertOps /\ Full(k.c) =>
            LET old == vec[k.c].buf
                n == vec[k.c].size
                ReadsOld(e) == e.b = old /\ e.ev \in {"copy from", "move from"}
                DestroysOld(e) == e.b = old /\ e.ev = "destroy"
                Constructs(e) == e.ev = "construct"
            IN /\ r.log # <<>> => r.log[1].ev = "allocate"
               /\ Count(r, "allocate") <= 1
               /\ \A i \in 1..Len(r.log) :
                      /\ Constructs(r.log[i]) /\ Before(r, i, Constructs) = {} =>
                             r.log[i].b = NewBlock(r) /\ r.log[i].i = NewSlot(k)
                      /\ ReadsOld(r.log[i]) \/ DestroysOld(r.log[i]) =>
                             Before(r, i, Constructs) # {}
                      /\ DestroysOld(r.log[i]) \/ r.log[i].ev = "adopt" =>
                             /\ Cardinality(Before(r, i, ReadsOld)) = n
                             /\ Cardinality(Before(r, i, Constructs)) = n + 1
                      /\ r.log[i].ev = "adopt" =>
                             /\ Cardinality(Before(r, i, DestroysOld)) = n
                             /\ r.log[i].b = NewBlock(r))

\* C18's case: a container filled to its capacity of two or more grows by a
\* PushBack and by an Insert at the front: all the steps are taken.
C18_Witness ==
    \E c \in Containers :
        /\ Alive(c) /\ Full(c) /\ vec[c].size >= 2
        /\ \A op \in {"PushBack(const T&)", "Insert(T&&)"} :
               SomeOutcome(LAMBDA k, r :
                   /\ k.c = c /\ k.op = op /\ k.p = 0 /\ ~r.ex
                   /\ Count(r, "construct") = vec[c].size + 1
                   /\ Count(r, "destroy") = vec[c].size
                   /\ Count(r, "adopt") = 1)

\* C19: in every call made within its preconditions, from every reachable
\* state and however the call ends, every RawMemory::operator+ is applied
\* with offset <= capacity_ and every RawMemory::operator[] with
\* index < capacity_ (no assertion fails); and in a PushBack, EmplaceBack,
\* Emplace or Insert made with Size() = Capacity() the address taken for the
\* new element has offset < capacity_ of the new buffer.
C19_AssertionsHold ==
    EveryOutcome(LAMBDA k, r :
        /\ r.asserts = 0
        /\ \A i \in 1..Len(r.log) :
               /\ r.log[i].ev = "operator+" => r.log[i].i <= r.log[i].n
               /\ r.log[i].ev = "operator[]" => r.log[i].i < r.log[i].n
               /\ /\ r.log[i].ev = "operator+"
                  /\ k.op \in TailOps \cup InsertOps /\ Full(k.c)
                  => r.log[i].i < r.log[i].n /\ r.log[i].b = NewBlock(r))

\* C19's case: a container with room for one more element, where an Insert at
\* the front uses operator[] on the buffer and a PushBack operator+ with
\* offset Size(); and a PushBack that grows from there.
C19_Witness ==
    \E c \in Containers :
        /\ Alive(c) /\ vec[c].size >= 1 /\ vec[c].size + 1 = vec[c].cap
        /\ SomeOutcome(LAMBDA k, r :
               /\ k.c = c /\ k.op = "Insert(const T&)" /\ k.p = 0 /\ ~r.ex
               /\ \E i \in 1..Len(r.log) :
                      r.log[i] = [ev |-> "operator[]", b |-> vec[c].buf, i |-> 0,
                                  n |-> vec[c].cap])
        /\ SomeOutcome(LAMBDA k, r :
               /\ k.c = c /\ k.op = "PushBack(T&&)" /\ ~r.ex
               /\ \E i \in 1..Len(r.log) :
                      r.log[i] = [ev |-> "operator+", b |-> vec[c].buf,
                                  i |-> vec[c].size, n |-> vec[c].cap])

\* C20: a copy-assignment and a move-assignment of a container to itself
\* return and leave its buffer, Capacity(), Size() and elements as they were,
\* with no element constructed, assigned, moved from or destroyed and no block
\* allocated, released or left without owner.
C20_SelfAssignment ==
    EveryOutcome(LAMBDA k, r :
        k.op \in {"operator=(const Vector&)", "operator=(Vector&&)"} /\ k.c = k.o =>
            /\ ~r.ex
            /\ Untouched(r, k.c)
            /\ \A ev \in {"construct", "assign", "move from", "destroy",
                          "allocate", "release"} : Count(r, ev) = 0
            /\ r.allocs = 0 /\ r.frees = 0 /\ r.leaked = 0 /\ r.lost = 0)

\* C20's case: a container with elements and a buffer, which can be assigned
\* to itself either way.
C20_Witness ==
    \E c \in Containers :
        /\ Alive(c) /\ vec[c].size >= 2 /\ vec[c].buf # NullBuf
        /\ \A op \in {"operator=(const Vector&)", "operator=(Vector&&)"} :
               SomeOutcome(LAMBDA k, r :
                   /\ k.op = op /\ k.c = c /\ k.o = c
                   /\ Size(r, c) = vec[c].size /\ Buf(r, c) = vec[c].buf)

====
